---- MODULE Spec2Model ----
(***************************************************************************)
(* Model of the request execution and retry engine of the GitHub API       *)
(* client: Client.Do with newResponse (rate-limit and pagination headers), *)
(* checkRetry, calcBackoff and newAPIError.                                *)
(*                                                                         *)
(* One Do invocation runs against an environment that chooses the server's *)
(* answers, may cancel the context at any moment and lets time pass.       *)
(* Durations and epochs are in whole seconds.                              *)
(***************************************************************************)
EXTENDS Integers, Sequences, FiniteSets, TLC

VARIABLES cfg, ctxDone, now, pc, attempt, httpresp, resp, waitTime, ret,
          sends, trace, backoff, cancelInfo, allEligible, req,
          client, calls, bk, built

\* the state of one Do invocation and of its environment
doVars == <<cfg, ctxDone, now, pc, attempt, httpresp, resp, waitTime, ret,
            sends, trace, backoff, cancelInfo, allEligible, req>>

\* client and calls: the wait fields of a client shared by concurrent calls
\* of waitRateLimit; bk: one application of calcBackoff; built: one
\* application of newResponse
aux == <<client, calls, bk, built>>

vars == <<cfg, ctxDone, now, pc, attempt, httpresp, resp, waitTime, ret,
          sends, trace, backoff, cancelInfo, allEligible, req, client, calls,
          bk, built>>

(***************************************************************************)
(* Bounds of the model.                                                    *)
(***************************************************************************)
\* largest configured retryMax that is explored
MaxRetryMax == 2
\* the clock runs from 0 to MaxTime
MaxTime == 2
\* largest attempt index calcBackoff is applied to
MaxAttemptIndex == 100
\* concurrent calls of waitRateLimit on one client
NumCalls == 2
\* most links in a Link header
MaxLinks == 2

(***************************************************************************)
(* Program constants.                                                      *)
(***************************************************************************)
StatusBadRequest == 400
StatusForbidden == 403
StatusTooManyRequests == 429
StatusInternalServerError == 500
StatusBadGateway == 502
StatusServiceUnavailable == 503
\* const binBase = 2 of calcBackoff
binBase == 2
\* a time.Duration is an int64 count of nanoseconds: the largest whole number
\* of seconds it holds is 9223372036, which is 8 * DurationLimit + 4
DurationLimit == 1152921504
\* stand-ins for the durations of math.MinInt64 and math.MaxInt64 nanoseconds
MinDuration == 0 - 2147483647
MaxDuration == 2147483647
\* defaults of NewClient
defaultWaitMin == 1
defaultWaitMax == 60
defaultRetryMax == 5
\* 5 * time.Second and 60 * time.Second of Client.calculateBackoff
lazyWaitMin == 5
lazyWaitMax == 60

Max(a, b) == IF a >= b THEN a ELSE b
Min(a, b) == IF a <= b THEN a ELSE b

\* float64(x) * math.Pow(2, e) as far as it matters: the exact product while
\* it does not exceed cap, and cap + 1 once it does
RECURSIVE ScaleUp(_, _, _)
ScaleUp(x, e, cap) ==
  IF e <= 0 THEN x
  ELSE IF x > cap \div binBase THEN cap + 1
  ELSE ScaleUp(binBase * x, e - 1, cap)

(***************************************************************************)
(* Header values are strings, modelled as sequences of characters; the     *)
(* empty sequence is an absent header (Header.Get returns "").             *)
(***************************************************************************)
Digits == {"0", "1", "2", "3", "4", "5", "6", "7", "8", "9"}

DigitVal(c) ==
  CASE c = "0" -> 0 [] c = "1" -> 1 [] c = "2" -> 2 [] c = "3" -> 3
    [] c = "4" -> 4 [] c = "5" -> 5 [] c = "6" -> 6 [] c = "7" -> 7
    [] c = "8" -> 8 [] c = "9" -> 9

RECURSIVE DigitsVal(_, _)
DigitsVal(s, acc) ==
  IF s = <<>> THEN acc ELSE DigitsVal(Tail(s), acc * 10 + DigitVal(Head(s)))

\* strconv.Atoi / strconv.ParseInt(s, 10, 64): optional sign, then one or
\* more decimal digits; anything else is an error.
Atoi(s) ==
  LET signed == s # <<>> /\ Head(s) \in {"+", "-"}
      body == IF signed THEN Tail(s) ELSE s
  IN IF body = <<>> \/ \E i \in 1..Len(body) : body[i] \notin Digits
     THEN [ok |-> FALSE, val |-> 0]
     ELSE [ok |-> TRUE,
           val |-> IF signed /\ Head(s) = "-" THEN 0 - DigitsVal(body, 0)
                   ELSE DigitsVal(body, 0)]

(***************************************************************************)
(* The server's answers.                                                   *)
(***************************************************************************)
NoHeader == <<>>
NoLinks == <<>>

\* header sets a response can carry: the four rate-limit headers and the
\* links of the Link header, each link a rel and the page query value
HeaderSets ==
  { [limit |-> NoHeader, remaining |-> NoHeader, reset |-> NoHeader,
     used |-> NoHeader, link |-> NoLinks],
    [limit |-> <<"6", "0">>, remaining |-> <<"0">>, reset |-> <<"1">>,
     used |-> <<"6", "0">>, link |-> NoLinks],
    [limit |-> <<"6", "0">>, remaining |-> <<"5">>, reset |-> <<"1">>,
     used |-> <<"5", "5">>, link |-> <<[rel |-> "next", page |-> <<"3">>]>>],
    [limit |-> <<"6", "0">>, remaining |-> <<"0">>, reset |-> NoHeader,
     used |-> <<"a", "b", "c">>, link |-> NoLinks],
    [limit |-> <<"6", "0">>, remaining |-> <<"5">>, reset |-> NoHeader,
     used |-> <<"a", "b", "c">>, link |-> NoLinks],
    [limit |-> NoHeader, remaining |-> NoHeader, reset |-> NoHeader,
     used |-> NoHeader, link |-> <<[rel |-> "next", page |-> <<"x">>]>>] }

\* response bodies as the JSON decoder sees them: not JSON at all (or
\* empty), or a JSON object with a message and possibly a "StatusCode" key
\* header sets whose remaining header is not a number, or is negative
RemainingHeaderSets ==
  { [limit |-> <<"6", "0">>, remaining |-> <<"x">>, reset |-> NoHeader,
     used |-> NoHeader, link |-> NoLinks],
    [limit |-> <<"6", "0">>, remaining |-> <<"-", "1">>, reset |-> NoHeader,
     used |-> NoHeader, link |-> NoLinks] }

\* typed: the JSON value fits the error schema; message (a sequence of
\* words), docUrl and errors are the message, the documentation_url and the
\* errors list of the body
NotJSON ==
  [json |-> FALSE, typed |-> FALSE, message |-> <<>>, docUrl |-> "",
   errors |-> <<>>, hasStatusCode |-> FALSE, statusCode |-> 0]
MessageJSON ==
  [json |-> TRUE, typed |-> TRUE, message |-> <<"Too Many Requests">>,
   docUrl |-> "https://docs", errors |-> <<"missing", "invalid">>,
   hasStatusCode |-> FALSE, statusCode |-> 0]
StatusCodeJSON ==
  [json |-> TRUE, typed |-> TRUE, message |-> <<"m">>, docUrl |-> "",
   errors |-> <<>>, hasStatusCode |-> TRUE, statusCode |-> 200]
\* {"message":"x","documentation_url":"https://docs","errors":5}
MistypedJSON ==
  [json |-> TRUE, typed |-> FALSE, message |-> <<"x">>,
   docUrl |-> "https://docs", errors |-> <<>>, hasStatusCode |-> FALSE,
   statusCode |-> 0]

Statuses ==
  { 200, 304, StatusForbidden, 404, StatusTooManyRequests,
    StatusInternalServerError, StatusBadGateway, StatusServiceUnavailable }

\* an *http.Response as the transport hands it over, its body open
HTTPResponse(s, h, b) ==
  [isNil |-> FALSE, StatusCode |-> s, Header |-> h, Body |-> b, closed |-> 0]

\* every status with every header set and a body that is or is not JSON, and
\* failing answers whose JSON body carries a "StatusCode" key
HTTPResponses ==
  { HTTPResponse(s, h, b) : s \in Statuses, h \in HeaderSets,
                            b \in {NotJSON, MessageJSON} }
  \cup { HTTPResponse(s, h, StatusCodeJSON) :
           s \in {404, StatusTooManyRequests},
           h \in {x \in HeaderSets : x.used = NoHeader /\ x.link = NoLinks} }
  \cup { HTTPResponse(s, h, NotJSON) :
           s \in {StatusForbidden, StatusTooManyRequests},
           h \in RemainingHeaderSets }
  \cup { HTTPResponse(404, h, MistypedJSON) :
           h \in {x \in HeaderSets : x.used = NoHeader /\ x.link = NoLinks} }

NilHTTPResponse ==
  [isNil |-> TRUE, StatusCode |-> 0,
   Header |-> [limit |-> NoHeader, remaining |-> NoHeader, reset |-> NoHeader,
               used |-> NoHeader, link |-> NoLinks],
   Body |-> [json |-> FALSE, typed |-> FALSE, message |-> <<>>, docUrl |-> "",
             errors |-> <<>>, hasStatusCode |-> FALSE, statusCode |-> 0],
   closed |-> 0]

(***************************************************************************)
(* Response envelope: newResponse, populateRateLimit, populatePagination.  *)
(***************************************************************************)
NilResponse ==
  [isNil |-> TRUE, StatusCode |-> 0, Limit |-> 0, Remaining |-> 0,
   Reset |-> 0, Used |-> 0, PreviousPage |-> 0, NextPage |-> 0,
   FirstPage |-> 0, LastPage |-> 0, sendNo |-> 0]

\* reads the four headers in order; the first one that does not parse ends
\* the extraction with an error and leaves the later fields untouched
populateRateLimit(r, h) ==
  LET lim == Atoi(h.limit)
      rem == Atoi(h.remaining)
      rst == Atoi(h.reset)
      usd == Atoi(h.used)
      r1 == IF h.limit # NoHeader /\ lim.ok THEN [r EXCEPT !.Limit = lim.val] ELSE r
      r2 == IF h.remaining # NoHeader /\ rem.ok THEN [r1 EXCEPT !.Remaining = rem.val] ELSE r1
      r3 == IF h.reset # NoHeader /\ rst.ok THEN [r2 EXCEPT !.Reset = rst.val] ELSE r2
      r4 == IF h.used # NoHeader /\ usd.ok THEN [r3 EXCEPT !.Used = usd.val] ELSE r3
  IN IF h.limit # NoHeader /\ ~lim.ok THEN [resp |-> r, err |-> TRUE]
     ELSE IF h.remaining # NoHeader /\ ~rem.ok THEN [resp |-> r1, err |-> TRUE]
     ELSE IF h.reset # NoHeader /\ ~rst.ok THEN [resp |-> r2, err |-> TRUE]
     ELSE IF h.used # NoHeader /\ ~usd.ok THEN [resp |-> r3, err |-> TRUE]
     ELSE [resp |-> r4, err |-> FALSE]

\* variant of populatePagination: page 0 is stored like any other page
RECURSIVE populatePaginationZeroStored(_, _)
populatePaginationZeroStored(r, links) ==
  IF links = <<>> THEN [resp |-> r, err |-> FALSE]
  ELSE LET link == Head(links)
           page == Atoi(link.page)
       IN IF ~page.ok THEN [resp |-> r, err |-> TRUE]
          ELSE populatePaginationZeroStored(
                 CASE link.rel = "prev" -> [r EXCEPT !.PreviousPage = page.val]
                   [] link.rel = "next" -> [r EXCEPT !.NextPage = page.val]
                   [] link.rel = "first" -> [r EXCEPT !.FirstPage = page.val]
                   [] link.rel = "last" -> [r EXCEPT !.LastPage = page.val]
                   [] OTHER -> r,
                 Tail(links))

\* walks the links in order; a page that is not an integer ends the walk
\* with an error, page 0 and unknown rels are skipped
RECURSIVE populatePagination(_, _)
populatePagination(r, links) ==
  IF links = <<>> THEN [resp |-> r, err |-> FALSE]
  ELSE LET link == Head(links)
           page == Atoi(link.page)
       IN IF ~page.ok THEN [resp |-> r, err |-> TRUE]
          ELSE IF page.val = 0 THEN populatePagination(r, Tail(links))
          ELSE populatePagination(
                 CASE link.rel = "prev" -> [r EXCEPT !.PreviousPage = page.val]
                   [] link.rel = "next" -> [r EXCEPT !.NextPage = page.val]
                   [] link.rel = "first" -> [r EXCEPT !.FirstPage = page.val]
                   [] link.rel = "last" -> [r EXCEPT !.LastPage = page.val]
                   [] OTHER -> r,
                 Tail(links))

\* variant of newResponse: the envelope of the first answer is kept for the
\* whole invocation
newResponseFirstKept(hr, n) ==
  LET r0 == [NilResponse EXCEPT !.isNil = FALSE, !.StatusCode = hr.StatusCode,
                                !.sendNo = n]
      rl == populateRateLimit(r0, hr.Header)
  IN IF ~resp.isNil THEN [resp |-> resp, err |-> FALSE]
     ELSE IF rl.err THEN rl ELSE populatePagination(rl.resp, hr.Header.link)

newResponse(hr, n) ==
  LET r0 == [NilResponse EXCEPT !.isNil = FALSE, !.StatusCode = hr.StatusCode,
                                !.sendNo = n]
      rl == populateRateLimit(r0, hr.Header)
  IN IF rl.err THEN rl ELSE populatePagination(rl.resp, hr.Header.link)

\* resp.Header of populateRateLimit reads through the embedded
\* *http.Response: with a nil response the read is a nil pointer dereference
newResponsePanics(hr) == hr.isNil

(***************************************************************************)
(* Retry classifier, backoff and API error.                                *)
(***************************************************************************)
\* variant of checkRetry: 503 is not in the list of retried statuses
checkRetryNo503(r) ==
  \/ r.StatusCode \in {StatusForbidden, StatusTooManyRequests} /\ r.Remaining = 0
  \/ r.StatusCode \in {StatusInternalServerError, StatusBadGateway}

checkRetry(r) ==
  \/ r.StatusCode \in {StatusForbidden, StatusTooManyRequests} /\ r.Remaining = 0
  \/ r.StatusCode \in {StatusInternalServerError, StatusBadGateway,
                       StatusServiceUnavailable}

\* variant of calcBackoff: the wait until the reset is capped at maxD
calcBackoffResetCapped(minD, maxD, atm, r, t) ==
  IF r.Reset # 0 THEN {Min(r.Reset - t, maxD)}
  ELSE IF ScaleUp(minD, atm - 3, DurationLimit) <= DurationLimit
  THEN {Min(ScaleUp(minD, atm, maxD), maxD)}
  ELSE {Min(d, maxD) : d \in {MinDuration, MaxDuration}}

\* minD seconds times 2^atm is a number of nanoseconds that fits an int64
FitsDuration(minD, atm) ==
  ScaleUp(minD, atm - 3, DurationLimit) <= DurationLimit

\* The durations calcBackoff can return; t is the reading of the clock taken
\* by time.Until. The product is a float64; converting one that is out of the
\* range of int64 gives a value that depends on the build: the most negative
\* int64 where the conversion wraps (amd64), the largest where it saturates
\* (arm64).
calcBackoff(minD, maxD, atm, r, t) ==
  IF r.Reset # 0 THEN {r.Reset - t}
  ELSE IF FitsDuration(minD, atm) THEN {Min(ScaleUp(minD, atm, maxD), maxD)}
  ELSE {Min(d, maxD) : d \in {MinDuration, MaxDuration}}

\* errors a Do invocation can return
GoError(k, n) ==
  [kind |-> k, status |-> n, message |-> <<>>, docUrl |-> "", errors |-> <<>>]
NoError == GoError("nil", 0)
CtxError == GoError("context", 0)
TransportErr == GoError("transport", 0)
HeaderError == GoError("header", 0)
HandlerError == GoError("handler", 0)
DecodeError == GoError("decode", 0)
NilDereference == GoError("panic", 0)
MaxAttemptsError(n) == GoError("max retry attempts exceeded", n)

\* the fallback message "request failed with status <code>"
FailedWithStatus(code) == <<"request failed with status", code>>

\* variant of newAPIError: a failed decode leaves the message as it is
newAPIErrorNoFallback(hr) ==
  IF hr.closed = 0 /\ hr.Body.json
  THEN [kind |-> "APIError",
        status |-> IF hr.Body.hasStatusCode THEN hr.Body.statusCode
                   ELSE hr.StatusCode,
        message |-> hr.Body.message,
        docUrl |-> hr.Body.docUrl,
        errors |-> hr.Body.errors]
  ELSE [kind |-> "APIError", status |-> hr.StatusCode,
        message |-> <<>>, docUrl |-> "", errors |-> <<>>]

\* StatusCode is set from the response first and the body is decoded over
\* the struct afterwards. A body that is closed or is not JSON sets nothing;
\* a JSON object with a field of the wrong type sets its other fields and
\* still fails to decode. Every failed decode ends with the fallback message.
newAPIError(hr) ==
  IF hr.closed = 0 /\ hr.Body.json
  THEN [kind |-> "APIError",
        status |-> IF hr.Body.hasStatusCode THEN hr.Body.statusCode
                   ELSE hr.StatusCode,
        message |-> IF hr.Body.typed THEN hr.Body.message
                    ELSE FailedWithStatus(hr.StatusCode),
        docUrl |-> hr.Body.docUrl,
        errors |-> hr.Body.errors]
  ELSE [kind |-> "APIError", status |-> hr.StatusCode,
        message |-> FailedWithStatus(hr.StatusCode),
        docUrl |-> "", errors |-> <<>>]

(***************************************************************************)
(* Client configuration (set once by NewClient and its options) and the    *)
(* decode target v of the call.                                            *)
(***************************************************************************)
Configs ==
  [ retryMax : (0 - 1)..MaxRetryMax, rateLimitRetry : BOOLEAN,
    rateLimitHandler : BOOLEAN, requestHook : BOOLEAN, responseHook : BOOLEAN,
    retryWaitMin : {1}, retryWaitMax : {4}, v : BOOLEAN ]

\* variant of maxAtm: the budget read as a number of retries after the first send
maxAtmRetries == Max(cfg.retryMax, 1) + 1

\* maxAtm := max(c.retryMax, 1)
maxAtm == Max(cfg.retryMax, 1)

NoBackoff == [active |-> FALSE, until |-> 0, sends |-> 0, handler |-> FALSE]
NoCancel == [inBackoff |-> FALSE, sends |-> 0, until |-> 0]

\* a retry-eligible answer as the server sent it: 403 or 429 whose remaining
\* header is absent or reads 0, or 500, 502, 503
RetryEligibleAnswer(hr) ==
  \/ hr.StatusCode \in {StatusForbidden, StatusTooManyRequests}
       /\ hr.Header.remaining \in {NoHeader, <<"0">>}
  \/ hr.StatusCode \in {StatusInternalServerError, StatusBadGateway,
                        StatusServiceUnavailable}

\* variant of NewClientConfig: retry is enabled unless an option disables it
NewClientConfigRetrying ==
  [ retryMax |-> defaultRetryMax, rateLimitRetry |-> TRUE,
    rateLimitHandler |-> FALSE, requestHook |-> FALSE, responseHook |-> FALSE,
    retryWaitMin |-> defaultWaitMin, retryWaitMax |-> defaultWaitMax,
    v |-> FALSE ]

\* NewClient without options
NewClientConfig ==
  [ retryMax |-> defaultRetryMax, rateLimitRetry |-> FALSE,
    rateLimitHandler |-> FALSE, requestHook |-> FALSE, responseHook |-> FALSE,
    retryWaitMin |-> defaultWaitMin, retryWaitMax |-> defaultWaitMax,
    v |-> FALSE ]

NoClient == [retryWaitMin |-> 0, retryWaitMax |-> 0]
NotBuilt == [hr |-> NilHTTPResponse, resp |-> NilResponse, err |-> FALSE,
             panicked |-> FALSE, applied |-> FALSE]
NoCalls == <<>>
NoCalc == [minD |-> 0, maxD |-> 0, attempt |-> 0, reset |-> 0, t |-> 0,
           wait |-> 0, applied |-> FALSE]

\* a request made by NewRequest with a body: the body is a bytes.Buffer that
\* has not been read; sent is what the latest send found in it
NewRequest == [Body |-> "unread", sent |-> "nothing yet"]

\* c.client.Do(req) reads the body of the request to the end
Send(r) ==
  [Body |-> "drained",
   sent |-> IF r.Body = "unread" THEN "full body" ELSE "empty body"]

\* a Do invocation that has not begun
DoInit ==
  /\ req = NewRequest
  /\ ctxDone = FALSE
  /\ now = 0
  /\ pc = "top"
  /\ attempt = 0
  /\ httpresp = NilHTTPResponse
  /\ resp = NilResponse
  /\ waitTime = 0
  /\ ret = [resp |-> NilResponse, err |-> NoError]
  /\ sends = 0
  /\ trace = <<>>
  /\ backoff = NoBackoff
  /\ cancelInfo = NoCancel
  /\ allEligible = TRUE

Init ==
  /\ cfg \in Configs
  /\ DoInit
  /\ client = NoClient
  /\ calls = NoCalls
  /\ bk = NoCalc
  /\ built = NotBuilt

\* resp.Body.Close() after the body was decoded (or was not asked for)
Close(hr) == [hr EXCEPT !.closed = @ + 1]

\* httpresp.Body.Close() of an answer that is retried: the body is closed
\* unread and what it held can no longer be read
Discard(hr) == [hr EXCEPT !.closed = @ + 1, !.Body = NotJSON]

\* variant of HandlerFailed: the envelope is withheld
HandlerFailedNoEnvelope(r) == [resp |-> NilResponse, err |-> HandlerError]

\* return resp, err of a failed custom rate-limit handler
HandlerFailed(r) == [resp |-> r, err |-> HandlerError]

\* variant of PostLoop: a failed decode withholds the envelope
PostLoopDecodeWithheld(hr, r) ==
  IF r.isNil THEN [resp |-> r, err |-> NilDereference, hr |-> hr]
  ELSE IF r.StatusCode >= StatusBadRequest
  THEN [resp |-> r, err |-> newAPIError(hr), hr |-> hr]
  ELSE IF cfg.v /\ ~(hr.closed = 0 /\ hr.Body.json)
  THEN [resp |-> NilResponse, err |-> DecodeError, hr |-> hr]
  ELSE [resp |-> r, err |-> NoError, hr |-> Close(hr)]

\* the statements after the loop: API error for status >= 400, else decode
\* into v when one was supplied, else close the body and succeed
PostLoop(hr, r) ==
  IF r.isNil THEN [resp |-> r, err |-> NilDereference, hr |-> hr]
  ELSE IF r.StatusCode >= StatusBadRequest
  THEN [resp |-> r, err |-> newAPIError(hr), hr |-> hr]
  ELSE IF cfg.v /\ ~(hr.closed = 0 /\ hr.Body.json)
  THEN [resp |-> r, err |-> DecodeError, hr |-> hr]
  ELSE [resp |-> r, err |-> NoError, hr |-> Close(hr)]

\* variant of LoopTop: the request hook runs before the context is checked
LoopTopHookFirst ==
  /\ pc = "top"
  /\ IF attempt >= maxAtm
     THEN LET out == PostLoop(httpresp, resp)
          IN /\ pc' = "done"
             /\ ret' = [resp |-> out.resp, err |-> out.err]
             /\ httpresp' = out.hr
             /\ UNCHANGED <<sends, trace, req>>
     ELSE IF ctxDone
     THEN /\ pc' = "done"
          /\ ret' = [resp |-> NilResponse, err |-> CtxError]
          /\ trace' = trace \o (IF cfg.requestHook THEN <<"requestHook">> ELSE <<>>)
          /\ UNCHANGED <<httpresp, sends, req>>
     ELSE /\ pc' = "sending"
          /\ sends' = sends + 1
          /\ req' = Send(req)
          /\ trace' = trace \o (IF cfg.requestHook THEN <<"requestHook">> ELSE <<>>)
                            \o <<"send">>
          /\ UNCHANGED <<ret, httpresp>>
  /\ UNCHANGED aux
  /\ UNCHANGED <<cfg, ctxDone, now, attempt, resp, waitTime, backoff,
                 cancelInfo, allEligible>>

\* top of the loop body: range check, context check, request hook, send
LoopTop ==
  /\ pc = "top"
  /\ IF attempt >= maxAtm
     THEN LET out == PostLoop(httpresp, resp)
          IN /\ pc' = "done"
             /\ ret' = [resp |-> out.resp, err |-> out.err]
             /\ httpresp' = out.hr
             /\ UNCHANGED <<sends, trace, req>>
     ELSE IF ctxDone
     THEN /\ pc' = "done"
          /\ ret' = [resp |-> NilResponse, err |-> CtxError]
          /\ UNCHANGED <<httpresp, sends, trace, req>>
     ELSE /\ pc' = "sending"
          /\ sends' = sends + 1
          /\ req' = Send(req)
          /\ trace' = trace \o (IF cfg.requestHook THEN <<"requestHook">> ELSE <<>>)
                            \o <<"send">>
          /\ UNCHANGED <<ret, httpresp>>
  /\ UNCHANGED aux
  /\ UNCHANGED <<cfg, ctxDone, now, attempt, resp, waitTime, backoff,
                 cancelInfo, allEligible>>

\* variant of TransportError: the failed send is retried like a 5xx answer
TransportErrorRetried ==
  /\ pc = "sending"
  /\ trace' = Append(trace, "transportError")
  /\ IF attempt >= maxAtm - 1
     THEN /\ pc' = "done"
          /\ ret' = [resp |-> NilResponse, err |-> TransportErr]
          /\ UNCHANGED attempt
     ELSE /\ pc' = "top"
          /\ attempt' = attempt + 1
          /\ UNCHANGED ret
  /\ UNCHANGED req
  /\ UNCHANGED aux
  /\ UNCHANGED <<cfg, ctxDone, now, httpresp, resp, waitTime, sends,
                 backoff, cancelInfo, allEligible>>

\* c.client.Do(req) fails: return nil, err
TransportError ==
  /\ pc = "sending"
  /\ pc' = "done"
  /\ ret' = [resp |-> NilResponse, err |-> TransportErr]
  /\ trace' = Append(trace, "transportError")
  /\ UNCHANGED req
  /\ UNCHANGED aux
  /\ UNCHANGED <<cfg, ctxDone, now, attempt, httpresp, resp, waitTime, sends,
                 backoff, cancelInfo, allEligible>>

\* c.client.Do(req) answers hr: the rest of the loop body up to the wait.
\* handlerFails is the outcome of the custom rate-limit handler, if called.
Receive(hr, handlerFails) ==
  /\ pc = "sending"
  /\ handlerFails => cfg.rateLimitHandler
  /\ allEligible' = (allEligible /\ RetryEligibleAnswer(hr))
  /\ LET nr == newResponse(hr, sends)
         r == nr.resp
         hooked == trace \o (IF cfg.responseHook THEN <<"responseHook">> ELSE <<>>)
         handled == IF cfg.rateLimitHandler THEN <<"rateLimitHandler">> ELSE <<>>
     IN /\ resp' = r
        /\ IF nr.err
           THEN /\ pc' = "done"
                /\ ret' = [resp |-> r, err |-> HeaderError]
                /\ httpresp' = hr
                /\ UNCHANGED <<trace, waitTime, backoff>>
           ELSE IF ~checkRetry(r)
           THEN LET out == PostLoop(hr, r)
                IN /\ pc' = "done"
                   /\ ret' = [resp |-> out.resp, err |-> out.err]
                   /\ httpresp' = out.hr
                   /\ trace' = hooked
                   /\ UNCHANGED <<waitTime, backoff>>
           ELSE IF ~cfg.rateLimitRetry
           THEN /\ pc' = "done"
                /\ ret' = [resp |-> r, err |-> newAPIError(hr)]
                /\ httpresp' = hr
                /\ trace' = hooked
                /\ UNCHANGED <<waitTime, backoff>>
           ELSE IF cfg.rateLimitHandler /\ handlerFails
           THEN /\ pc' = "done"
                /\ ret' = HandlerFailed(r)
                /\ httpresp' = hr
                /\ trace' = hooked \o <<"rateLimitHandler", "handlerError">>
                /\ UNCHANGED <<waitTime, backoff>>
           ELSE /\ httpresp' = Discard(hr)
                /\ IF attempt >= maxAtm - 1
                   THEN /\ pc' = "done"
                        /\ ret' = [resp |-> r, err |-> MaxAttemptsError(maxAtm)]
                        /\ trace' = hooked \o handled
                        /\ UNCHANGED <<waitTime, backoff>>
                   ELSE \E w \in calcBackoff(cfg.retryWaitMin, cfg.retryWaitMax,
                                               attempt, r, now) :
                           /\ pc' = "select"
                           /\ trace' = hooked \o handled \o <<"calcBackoff">>
                           /\ waitTime' = w
                           /\ backoff' = [active |-> TRUE, until |-> now + w,
                                          sends |-> sends,
                                          handler |-> cfg.rateLimitHandler]
                           /\ UNCHANGED ret
  /\ UNCHANGED req
  /\ UNCHANGED aux
  /\ UNCHANGED <<cfg, ctxDone, now, attempt, sends, cancelInfo>>

\* select { case <-ctx.Done(): return; case <-time.After(waitTime): continue;
\* default: }. The select does not block: the timer case can only be ready
\* when waitTime is not positive, the default case runs when nothing is ready.
Select ==
  /\ pc = "select"
  /\ \/ /\ ctxDone
        /\ pc' = "done"
        /\ ret' = [resp |-> resp, err |-> CtxError]
        /\ UNCHANGED attempt
     \/ /\ ~ctxDone \/ waitTime <= 0
        /\ pc' = "top"
        /\ attempt' = attempt + 1
        /\ UNCHANGED ret
  /\ UNCHANGED req
  /\ UNCHANGED aux
  /\ UNCHANGED <<cfg, ctxDone, now, httpresp, resp, waitTime, sends, trace,
                 backoff, cancelInfo, allEligible>>

\* the caller cancels the context (or its deadline passes)
Cancel ==
  /\ pc # "done"
  /\ ~ctxDone
  /\ ctxDone' = TRUE
  /\ cancelInfo' = [inBackoff |-> backoff.active /\ now < backoff.until,
                    sends |-> backoff.sends, until |-> backoff.until]
  /\ UNCHANGED req
  /\ UNCHANGED aux
  /\ UNCHANGED <<cfg, now, pc, attempt, httpresp, resp, waitTime, ret, sends,
                 trace, backoff, allEligible>>

\* a second passes; the send is the only statement of Do that blocks
Tick ==
  /\ pc = "sending"
  /\ now < MaxTime
  /\ now' = now + 1
  /\ UNCHANGED req
  /\ UNCHANGED aux
  /\ UNCHANGED <<cfg, ctxDone, pc, attempt, httpresp, resp, waitTime, ret,
                 sends, trace, backoff, cancelInfo, allEligible>>

Next ==
  \/ LoopTop
  \/ TransportError
  \/ \E hr \in HTTPResponses, handlerFails \in BOOLEAN : Receive(hr, handlerFails)
  \/ Select
  \/ Cancel
  \/ Tick

Spec == Init /\ [][Next]_vars

(***************************************************************************)
(* calcBackoff on its own: one application to inputs drawn from the        *)
(* configurations and attempt indices a client can reach.                  *)
(***************************************************************************)
BackoffInputs ==
  [ minD : {0, 1, 2}, maxD : {0, 4, 30}, attempt : 0..MaxAttemptIndex,
    reset : {0, 1, 3, 9}, t : 0..MaxTime, wait : {0}, applied : {FALSE} ]

BackoffInit ==
  /\ cfg = NewClientConfig
  /\ DoInit
  /\ client = NoClient
  /\ calls = NoCalls
  /\ bk \in BackoffInputs
  /\ built = NotBuilt

ApplyCalcBackoff ==
  /\ ~bk.applied
  /\ \E w \in calcBackoff(bk.minD, bk.maxD, bk.attempt,
                           [NilResponse EXCEPT !.Reset = bk.reset], bk.t) :
       bk' = [bk EXCEPT !.wait = w, !.applied = TRUE]
  /\ UNCHANGED <<client, calls, built>>
  /\ UNCHANGED doVars

BackoffNext == ApplyCalcBackoff

BackoffSpec == BackoffInit /\ [][BackoffNext]_vars

(***************************************************************************)
(* newResponse on its own: one application to a nil response, to every     *)
(* combination of absent, numeric and non-numeric rate-limit headers, and  *)
(* to Link headers of up to MaxLinks links.                                *)
(***************************************************************************)
HeaderValues == {NoHeader, <<"7">>, <<"a">>}

RateHeaderSets ==
  [ limit : HeaderValues, remaining : HeaderValues, reset : HeaderValues,
    used : HeaderValues, link : {NoLinks} ]

Links ==
  [ rel : {"prev", "next", "first", "last", "hub"},
    page : {<<"0">>, <<"3">>, <<"7">>, <<"x">>} ]

LinkLists == UNION {[1..n -> Links] : n \in 0..MaxLinks}

LinkHeaderSets ==
  [ limit : {NoHeader}, remaining : {NoHeader}, reset : {NoHeader},
    used : {NoHeader}, link : LinkLists ]

EnvelopeInputs ==
  {NilHTTPResponse}
  \cup {HTTPResponse(200, h, NotJSON) : h \in RateHeaderSets \cup LinkHeaderSets}

EnvelopeInit ==
  /\ cfg = NewClientConfig
  /\ DoInit
  /\ client = NoClient
  /\ calls = NoCalls
  /\ bk = NoCalc
  /\ \E hr \in EnvelopeInputs : built = [NotBuilt EXCEPT !.hr = hr]

ApplyNewResponse ==
  /\ ~built.applied
  /\ built' = IF newResponsePanics(built.hr)
              THEN [built EXCEPT !.panicked = TRUE, !.applied = TRUE]
              ELSE LET nr == newResponse(built.hr, 0)
                   IN [built EXCEPT !.resp = nr.resp, !.err = nr.err,
                                    !.applied = TRUE]
  /\ UNCHANGED <<client, calls, bk>>
  /\ UNCHANGED doVars

EnvelopeNext == ApplyNewResponse

EnvelopeSpec == EnvelopeInit /\ [][EnvelopeNext]_vars

(***************************************************************************)
(* The wait of the Do that sleeps: waitRateLimit and Client.calculateBackoff *)
(* called by concurrent Do invocations on one client. A call is at "idle"  *)
(* before waitRateLimit, at "min", "max" and "wait" inside                 *)
(* calculateBackoff, at "sleep" in time.Sleep and then "returned".         *)
(***************************************************************************)
Goroutines == 1..NumCalls

\* the wait fields as NewClient and WithRetryWaitMin, WithRetryWaitMax leave them
WaitClients == [retryWaitMin : {0, 1}, retryWaitMax : {0, 4}]

IdleCall == [pc |-> "idle", attempt |-> 0, reset |-> 0, waitTime |-> 0]

WaitInit ==
  /\ cfg = NewClientConfig
  /\ DoInit
  /\ client \in WaitClients
  /\ calls = [g \in Goroutines |-> IdleCall]
  /\ bk = NoCalc
  /\ built = NotBuilt

\* waitRateLimit(rl, attempt) up to the sleep or the call of calculateBackoff;
\* t is the reading of the clock taken by time.Until
waitRateLimit(g, reset, atm, t) ==
  /\ calls[g].pc = "idle"
  /\ calls' = [calls EXCEPT ![g] =
       IF reset # 0
       THEN [pc |-> "sleep", attempt |-> atm, reset |-> reset,
             waitTime |-> IF reset - t < 0 THEN 1 ELSE reset - t]
       ELSE [pc |-> "min", attempt |-> atm, reset |-> reset, waitTime |-> 0]]
  /\ UNCHANGED <<client, bk, built>>
  /\ UNCHANGED doVars

\* if c.retryWaitMin.Seconds() == 0 { c.retryWaitMin = 5 * time.Second }
calculateBackoffMin(g) ==
  /\ calls[g].pc = "min"
  /\ client' = IF client.retryWaitMin = 0
               THEN [client EXCEPT !.retryWaitMin = lazyWaitMin] ELSE client
  /\ calls' = [calls EXCEPT ![g].pc = "max"]
  /\ UNCHANGED <<bk, built>>
  /\ UNCHANGED doVars

\* if c.retryWaitMax.Seconds() == 0 { c.retryWaitMax = 60 * time.Second }
calculateBackoffMax(g) ==
  /\ calls[g].pc = "max"
  /\ client' = IF client.retryWaitMax = 0
               THEN [client EXCEPT !.retryWaitMax = lazyWaitMax] ELSE client
  /\ calls' = [calls EXCEPT ![g].pc = "wait"]
  /\ UNCHANGED <<bk, built>>
  /\ UNCHANGED doVars

\* wait := min * 2^attempt, capped at max, from the fields as they are now
calculateBackoffWait(g) ==
  /\ calls[g].pc = "wait"
  /\ calls' = [calls EXCEPT ![g].pc = "sleep",
                            ![g].waitTime =
                              Min(ScaleUp(client.retryWaitMin, calls[g].attempt,
                                          client.retryWaitMax),
                                  client.retryWaitMax)]
  /\ UNCHANGED <<client, bk, built>>
  /\ UNCHANGED doVars

\* time.Sleep(waitTime) returns
Sleep(g) ==
  /\ calls[g].pc = "sleep"
  /\ calls' = [calls EXCEPT ![g].pc = "returned"]
  /\ UNCHANGED <<client, bk, built>>
  /\ UNCHANGED doVars

WaitNext ==
  \/ \E g \in Goroutines, reset \in {0, 1, 3}, atm \in 0..1, t \in 0..MaxTime :
       waitRateLimit(g, reset, atm, t)
  \/ \E g \in Goroutines : calculateBackoffMin(g)
  \/ \E g \in Goroutines : calculateBackoffMax(g)
  \/ \E g \in Goroutines : calculateBackoffWait(g)
  \/ \E g \in Goroutines : Sleep(g)

WaitSpec == WaitInit /\ [][WaitNext]_vars

TypeOK ==
  /\ cfg \in Configs \cup {NewClientConfig}
  /\ pc \in {"top", "sending", "select", "done"}
  /\ sends \in 0..(MaxRetryMax + 2)

(***************************************************************************)
(* Properties.                                                             *)
(***************************************************************************)
Last(s) == s[Len(s)]

\* the final answer was received, its headers parsed and the classifier
\* looked at this envelope
Classified ==
  /\ ~httpresp.isNil
  /\ ~resp.isNil
  /\ resp.sendNo = sends
  /\ ~newResponse(httpresp, sends).err

\* the Link header of the answer is well formed
LinkParses(hr) == ~populatePagination(NilResponse, hr.Header.link).err

\* C1: whatever retryMax is (zero and negative included), one Do invocation
\* sends at most max(retryMax, 1) requests, and it returns without having
\* sent any only with the context's error, the context having been cancelled
\* before the first send.
C1_AttemptBudget ==
  /\ sends <= (IF cfg.retryMax >= 1 THEN cfg.retryMax ELSE 1)
  /\ (pc = "done" /\ sends = 0) => (ctxDone /\ ret.err = CtxError)

\* a client configured with a non-positive retryMax has sent its one request
\* and given up on a retry-eligible answer
C1_Witness ==
  /\ pc = "done"
  /\ cfg.retryMax <= 0
  /\ sends = 1
  /\ ret.err.kind = "max retry attempts exceeded"

\* C2: retry enabled, no custom handler, the server answers every request
\* with a retry-eligible response: Do sends exactly maxAttempts requests and
\* returns the last envelope with the generic max attempts exceeded error.
\* (Stated for calls that are not cancelled, whose sends all get an answer
\* and whose Link headers are well formed.)
C2_ExhaustionClaim ==
  ( /\ pc = "done"
    /\ cfg.rateLimitRetry
    /\ ~cfg.rateLimitHandler
    /\ ~ctxDone
    /\ sends >= 1
    /\ allEligible
    /\ LinkParses(httpresp)
    /\ ret.err # TransportErr )
  => /\ sends = (IF cfg.retryMax >= 1 THEN cfg.retryMax ELSE 1)
     /\ ret.err.kind = "max retry attempts exceeded"
     /\ ~ret.resp.isNil
     /\ ret.resp.sendNo = sends

\* C3: a further request is sent only after a retry-eligible response and
\* with retry enabled; a 403 or 429 answer with remaining > 0 (and a well
\* formed Link header) ends the call after that send and is reported as an
\* APIError.
C3_RetryOnlyIfEligibleClaim ==
  /\ [][ (sends' = sends + 1 /\ sends >= 1)
         => /\ cfg.rateLimitRetry
            /\ \/ resp.StatusCode \in {403, 429} /\ resp.Remaining = 0
               \/ resp.StatusCode \in {500, 502, 503} ]_vars
  /\ [] ( ( /\ ~httpresp.isNil
            /\ pc \in {"select", "done"}
            /\ httpresp.StatusCode \in {403, 429}
            /\ Atoi(httpresp.Header.remaining).ok
            /\ Atoi(httpresp.Header.remaining).val > 0
            /\ LinkParses(httpresp) )
          => (pc = "done" /\ ret.err.kind = "APIError") )

\* C4: a retry-eligible response with retry disabled ends the call on that
\* attempt with a non-nil envelope carrying its rate-limit snapshot and an
\* APIError with that response's status and the message of its body.
C4_RetryDisabledClaim ==
  ( /\ pc = "done"
    /\ ~cfg.rateLimitRetry
    /\ Classified
    /\ checkRetry(resp) )
  => /\ sends = 1
     /\ ~ret.resp.isNil
     /\ ret.resp = newResponse(httpresp, sends).resp
     /\ ret.err.kind = "APIError"
     /\ ret.err.status = httpresp.StatusCode
     /\ ret.err.message = (IF httpresp.Body.json THEN httpresp.Body.message
                           ELSE FailedWithStatus(httpresp.StatusCode))

C6_CancelledAtAttemptStart ==
  [][ ( /\ pc = "top"
        /\ ctxDone
        /\ attempt < (IF cfg.retryMax >= 1 THEN cfg.retryMax ELSE 1)
        /\ pc' # pc )
      => /\ pc' = "done"
         /\ ret'.resp.isNil
         /\ ret'.err = CtxError
         /\ sends' = sends
         /\ trace' = trace ]_vars

\* the second attempt found the context cancelled: one request was sent, the
\* request hook ran once, and the call ended with the context's error
C6_Witness ==
  /\ pc = "done"
  /\ cfg.requestHook
  /\ attempt = 1
  /\ sends = 1
  /\ ret.resp.isNil
  /\ ret.err = CtxError
  /\ Last(trace) # "requestHook"

\* C7: a context cancelled while the computed backoff between two attempts
\* has not yet elapsed ends the call with the context's error, and the next
\* request is never sent.
C7_CancelDuringBackoffClaim ==
  cancelInfo.inBackoff
    => /\ sends = cancelInfo.sends
       /\ pc = "done" => ret.err = CtxError

\* C8: on the default path the next request is not sent before the computed
\* backoff has elapsed.
C8_WaitBeforeNextSendClaim ==
  [][ (sends' = sends + 1 /\ backoff.active /\ ~backoff.handler)
      => now >= backoff.until ]_vars

\* C9: when the loop ends on a response that is not retried and whose status
\* is >= 400, Do returns its envelope and an APIError whose status code is
\* that status.
C9_APIErrorClaim ==
  ( /\ pc = "done"
    /\ Classified
    /\ ~checkRetry(resp)
    /\ resp.StatusCode >= 400 )
  => /\ ~ret.resp.isNil
     /\ ret.resp.sendNo = sends
     /\ ret.err.kind = "APIError"
     /\ ret.err.status = httpresp.StatusCode

\* C10: Do returns a nil error only if the final response's status is 2xx.
C10_NilErrorOnly2xxClaim ==
  (pc = "done" /\ ret.err = NoError)
    => (~ret.resp.isNil /\ ret.resp.StatusCode \in 200..299)

\* number of occurrences of x in s
Count(s, x) == Cardinality({i \in 1..Len(s) : s[i] = x})

C12_EnvelopeOfLastSend ==
  ( /\ pc = "done"
    /\ ret.err.kind \in {"nil", "APIError", "handler", "decode",
                          "max retry attempts exceeded"} )
  => /\ ~ret.resp.isNil
     /\ ret.resp.sendNo = sends
     /\ ret.resp.StatusCode = httpresp.StatusCode
     /\ ret.resp = newResponse(httpresp, sends).resp

\* a retry-eligible first answer, then 200 with its own headers: the
\* envelope shows status 200 and the second answer's snapshot and next page
C12_Witness ==
  /\ pc = "done"
  /\ sends = 2
  /\ ret.err = NoError
  /\ ret.resp.StatusCode = 200
  /\ ret.resp.Remaining = 5
  /\ ret.resp.NextPage = 3

\* C13: after a custom rate-limit handler returned no error, Do goes on to
\* the next attempt without computing the default backoff.
C13_HandlerSkipsBackoffClaim ==
  \A i \in 1..Len(trace) :
    (trace[i] = "rateLimitHandler" /\ i < Len(trace))
      => trace[i + 1] # "calcBackoff"

\* C14: an error of the custom rate-limit handler ends the call at once with
\* exactly that error and the envelope of the current response; nothing is
\* sent after it.
C14_HandlerErrorTerminal ==
  \A i \in 1..Len(trace) :
    trace[i] = "handlerError"
      => /\ i = Len(trace)
         /\ pc = "done"
         /\ ret.err = HandlerError
         /\ ~ret.resp.isNil
         /\ ret.resp.sendNo = sends
         /\ ret.resp = newResponse(httpresp, sends).resp

\* the handler let the first answer be retried and failed on the second
C14_Witness ==
  /\ pc = "done"
  /\ sends = 2
  /\ Last(trace) = "handlerError"
  /\ Count(trace, "rateLimitHandler") = 2
  /\ ret.err = HandlerError

\* C15: with both hooks configured, the request hook has run once for each
\* send and the response hook once for each received response when Do
\* returns. (Stated for calls whose sends all got an answer and whose Link
\* headers are well formed.)
C15_HooksAlternateClaim ==
  ( /\ pc = "done"
    /\ cfg.requestHook
    /\ cfg.responseHook
    /\ ~httpresp.isNil
    /\ LinkParses(httpresp)
    /\ Count(trace, "transportError") = 0 )
  => /\ Count(trace, "requestHook") = sends
     /\ Count(trace, "responseHook") = sends

\* C16: no step of the wait or of the backoff computation writes a
\* configuration field of the client.
C16_ConfigNeverWrittenClaim == [][client' = client]_vars

\* C17: the APIError built from a response whose body is empty or does not
\* parse as the error schema has the message "request failed with status
\* <code>" with the response's status; when the body parses, message,
\* documentation_url and the errors list in their order are those of the body.
C17_ErrorBodyFallback ==
  ( /\ pc = "done"
    /\ ret.err.kind = "APIError"
    /\ ~httpresp.isNil )
  => IF httpresp.Body.json /\ httpresp.Body.typed
     THEN /\ ret.err.message = httpresp.Body.message
          /\ ret.err.docUrl = httpresp.Body.docUrl
          /\ ret.err.errors = httpresp.Body.errors
     ELSE ret.err.message = FailedWithStatus(httpresp.StatusCode)

\* a 404 whose body is a JSON object with a field of the wrong type
C17_Witness ==
  /\ pc = "done"
  /\ ret.err.kind = "APIError"
  /\ httpresp.StatusCode = 404
  /\ httpresp.Body = MistypedJSON
  /\ ret.err.message = FailedWithStatus(404)

\* C18: with retry enabled, an answer is treated as retry-eligible (the call
\* goes on to the wait, or ends with max attempts exceeded, the handler's
\* error or a cancellation) exactly when its status is 403 or 429 with
\* remaining = 0, or 500, 502 or 503; every other answer ends the loop.
C18_RetryClassifier ==
  ( /\ cfg.rateLimitRetry
    /\ Classified
    /\ pc \in {"select", "done"} )
  => ( ( \/ resp.StatusCode \in {403, 429} /\ resp.Remaining = 0
         \/ resp.StatusCode \in {500, 502, 503} )
       <=> ( \/ pc = "select"
             \/ ret.err.kind \in {"max retry attempts exceeded", "handler",
                                   "context"} ) )

\* a 503 answer with remaining = 5 is retried
C18_Witness ==
  /\ pc = "select"
  /\ resp.StatusCode = 503
  /\ resp.Remaining = 5

\* C19: when Do returns after the final attempt received a response, the
\* body of that response has been closed exactly once.
C19_BodyClosedOnceClaim ==
  (pc = "done" /\ Classified) => httpresp.closed = 1

\* C20: with reset = 0 and 0 < min <= max, the backoff of attempt index a is
\* min(min * 2^a, max): never below min, never above max.
C20_BackoffClaim ==
  (bk.applied /\ bk.reset = 0 /\ 0 < bk.minD /\ bk.minD <= bk.maxD)
  => /\ bk.wait = Min(ScaleUp(bk.minD, bk.attempt, bk.maxD), bk.maxD)
     /\ bk.wait >= bk.minD
     /\ bk.wait <= bk.maxD

C22_PastResetClaim ==
  (bk.applied /\ bk.reset # 0 /\ bk.reset <= bk.t) => bk.wait = 1

\* C23: a configured min or max of zero is replaced by the default before
\* the exponential backoff is computed: with reset = 0 the wait is never
\* zero and never above the default maximum.
C23_ZeroDefaultsClaim ==
  ( /\ bk.applied
    /\ bk.reset = 0
    /\ bk.minD = 0 \/ bk.maxD = 0
    /\ bk.attempt <= 3 )
  => /\ bk.wait > 0
     /\ bk.wait <= defaultWaitMax
     /\ (bk.minD = 0 /\ bk.maxD = 0)
          => bk.wait = Min(ScaleUp(defaultWaitMin, bk.attempt, defaultWaitMax),
                           defaultWaitMax)

\* the field a rate-limit header leaves: its value, or zero when the header
\* is absent or not a number
FieldOf(h) == IF Atoi(h).ok THEN Atoi(h).val ELSE 0

\* C24: rate-limit extraction signals no error whatever the four headers
\* hold, and each field is the value of its own header, or zero when that
\* header is missing or not a number.
C24_ExtractionTotalClaim ==
  (built.applied /\ ~built.hr.isNil /\ built.hr.Header.link = NoLinks)
  => /\ ~built.err
     /\ built.resp.Limit = FieldOf(built.hr.Header.limit)
     /\ built.resp.Remaining = FieldOf(built.hr.Header.remaining)
     /\ built.resp.Reset = FieldOf(built.hr.Header.reset)
     /\ built.resp.Used = FieldOf(built.hr.Header.used)

\* C25: for a nil HTTP response the construction of the envelope does not
\* fail, and the rate-limit and pagination fields of the envelope read zero.
C25_NilResponseClaim ==
  (built.applied /\ built.hr.isNil)
  => /\ ~built.panicked
     /\ ~built.err
     /\ built.resp.Limit = 0 /\ built.resp.Remaining = 0
     /\ built.resp.Reset = 0 /\ built.resp.Used = 0
     /\ built.resp.PreviousPage = 0 /\ built.resp.NextPage = 0
     /\ built.resp.FirstPage = 0 /\ built.resp.LastPage = 0

\* the page of the last link of links with this rel and a page other than
\* 0, and 0 when there is none
PageOf(links, rel) ==
  LET idx == {i \in 1..Len(links) :
                links[i].rel = rel /\ Atoi(links[i].page).val # 0}
  IN IF idx = {} THEN 0
     ELSE Atoi(links[CHOOSE i \in idx : \A j \in idx : j <= i].page).val

\* C26: parsing a Link header whose pages are integers (on a response
\* without rate-limit headers) sets each of the four page fields to the page
\* of the link with its rel; an unrecognised rel or page 0 changes nothing,
\* a later link with the same rel overwrites an earlier one, a field without
\* a link stays 0.
C26_LinkHeaderPages ==
  ( /\ built.applied
    /\ ~built.hr.isNil
    /\ built.hr.Header \in LinkHeaderSets
    /\ \A i \in 1..Len(built.hr.Header.link) :
         Atoi(built.hr.Header.link[i].page).ok )
  => /\ ~built.err
     /\ built.resp.PreviousPage = PageOf(built.hr.Header.link, "prev")
     /\ built.resp.NextPage = PageOf(built.hr.Header.link, "next")
     /\ built.resp.FirstPage = PageOf(built.hr.Header.link, "first")
     /\ built.resp.LastPage = PageOf(built.hr.Header.link, "last")

\* next page 3, then a next link with page 0: the field keeps 3
C26_Witness ==
  /\ built.applied
  /\ built.hr.Header.link = <<[rel |-> "next", page |-> <<"3">>],
                              [rel |-> "next", page |-> <<"0">>]>>
  /\ built.resp.NextPage = 3
  /\ built.resp.LastPage = 0

\* C27: on a client whose retry toggle is as NewClient leaves it, a Do
\* invocation sends one request, or none when the context was already
\* cancelled, whatever the response is.
C27_DefaultRetryDisabled ==
  (cfg.rateLimitRetry = NewClientConfig.rateLimitRetry)
  => /\ sends <= 1
     /\ pc = "done"
          => (sends = 1 \/ (sends = 0 /\ ctxDone /\ ret.err = CtxError))

\* a 503 answer on a client with retryMax = 2 and retry left disabled
C27_Witness ==
  /\ pc = "done"
  /\ ~cfg.rateLimitRetry
  /\ cfg.retryMax = 2
  /\ sends = 1
  /\ httpresp.StatusCode = 503
  /\ ret.err.kind = "APIError"

\* C28: every send of one Do invocation carries the full body of the
\* request.
C28_BodyResentClaim == sends >= 1 => req.sent = "full body"

\* the headers other than remaining are absent or numbers
OtherHeadersParse(hr) ==
  /\ hr.Header.limit = NoHeader \/ Atoi(hr.Header.limit).ok
  /\ hr.Header.reset = NoHeader \/ Atoi(hr.Header.reset).ok
  /\ hr.Header.used = NoHeader \/ Atoi(hr.Header.used).ok
  /\ LinkParses(hr)

\* C29: with retry enabled, a 403 or 429 answer is treated as retry-eligible
\* exactly when its remaining header is absent, is not a number or reads 0;
\* a negative remaining is not retry-eligible.
C29_MissingRemainingClaim ==
  ( /\ cfg.rateLimitRetry
    /\ pc \in {"select", "done"}
    /\ ~httpresp.isNil
    /\ resp.sendNo = sends
    /\ httpresp.StatusCode \in {403, 429}
    /\ OtherHeadersParse(httpresp) )
  => ( FieldOf(httpresp.Header.remaining) = 0
       <=> ( \/ pc = "select"
             \/ ret.err.kind \in {"max retry attempts exceeded", "handler",
                                   "context"} ) )

\* C30: the status code of every APIError Do returns is the status of the
\* response it was built from, and that status is >= 400.
C30_APIErrorStatusClaim ==
  (pc = "done" /\ ret.err.kind = "APIError")
  => /\ ret.err.status = httpresp.StatusCode
     /\ httpresp.StatusCode >= 400

====
